---- MODULE Spec2Model ----
(***************************************************************************)
(* Model of the interactive git-workflow command-line tools:               *)
(*   Stager          scripts/prepare-commit-msg.js (add wizard, l.206-573) *)
(*   Commit Composer scripts/commit.js                                     *)
(*   Pusher          unnamed/part_001 (push wizard)                        *)
(* Strings are sequences of one-character strings, so that substring,      *)
(* trim, split, escaping and shell word parsing are computed as the code   *)
(* and the shell compute them.  A JavaScript `undefined` / `null` answer   *)
(* is the model value Undefined / Null.                                    *)
(***************************************************************************)
EXTENDS Integers, Sequences, FiniteSets, TLC

VARIABLES
    tool,           \* which executable this run is: "stager", "commit", "push"
    pc,             \* position of main() in the running tool; "exited" at the end
    exitCode,       \* the process exit code (0 unless process.exit(n) set it)
    out,            \* messages printed so far (console.log / console.error), as tags
    promptLog,      \* names of the prompts shown so far, in order
    gitCalls,       \* mutating git operations invoked so far, in order
    finalAnswer,    \* confirmStage / confirmCommit / confirmPush; "pending" before
    keys,           \* what the user typed at the prompts that log it, in order
    \* ---- prepare-commit-msg hook
    commitSource,   \* process.argv[3]
    markerFiles,    \* TRUE when MERGE_HEAD, REBASE_HEAD or CHERRY_PICK_HEAD exists
    isTTY,          \* process.stdin.isTTY
    msgFile,        \* content of the commit message file
    writes,         \* number of writes of the commit message file
    \* ---- Stager
    statusOutput,   \* raw output of `git status --porcelain`
    changedFiles,   \* getChangedFiles() result
    selectionMode,  \* answer of the selection-mode prompt
    filesToStage,   \* paths selected for staging
    \* ---- Commit Composer
    stagedFiles,    \* getStagedFiles() result
    scopeSuggestion,\* getScopeSuggestion() result
    response,       \* answers of the main prompts() chain (Composer and Pusher)
    scope,          \* the resolved scope
    commitMessage,  \* the assembled message
    envValue,       \* value the shell substitutes for a $name expansion
    \* ---- Pusher
    currentBranch,  \* getCurrentBranch() result
    remotes,        \* getRemoteBranches() result
    remoteRefs,     \* remote-tracking refs <<remote, branch>> that exist locally
    ahead,          \* number of commits of the branch not on its remote ref
    unpushedCommits,\* getUnpushedCommits() result
    pushCommand,    \* the command line shown before the final confirmation
    spinnerIndex,   \* spinnerIndex
    stillRunning,   \* stillRunning
    spinnerInterval,\* TRUE while the setInterval timer is armed
    output,         \* captured stdout/stderr chunks of git push
    pushExit,       \* exit code git push will close with
    framesWritten   \* spinner frames written to stdout so far

vars == <<tool, pc, exitCode, out, promptLog, gitCalls, finalAnswer, keys,
          commitSource, markerFiles, isTTY, msgFile, writes,
          statusOutput, changedFiles, selectionMode, filesToStage,
          stagedFiles, scopeSuggestion, response, scope, commitMessage, envValue,
          currentBranch, remotes, remoteRefs, ahead, unpushedCommits, pushCommand,
          spinnerIndex, stillRunning, spinnerInterval, output, pushExit,
          framesWritten>>

hookVars == <<commitSource, markerFiles, isTTY, msgFile, writes>>
stagerVars == <<statusOutput, changedFiles, selectionMode, filesToStage>>
commitVars == <<stagedFiles, scopeSuggestion, scope, commitMessage, envValue>>
pushVars == <<currentBranch, remotes, remoteRefs, ahead, unpushedCommits, pushCommand,
              spinnerIndex, stillRunning, spinnerInterval, output, pushExit,
              framesWritten>>

\* JavaScript undefined where a boolean or a choice is expected (a cancelled
\* prompt without onCancel); the booleans beside it are "true" and "false"
Undefined == "undefined"
\* JavaScript undefined where a string or an array is expected
UndefinedStr == <<"undefined">>
\* JavaScript null
Null == "null"

(***************************************************************************)
(* Bounds of the model                                                     *)
(***************************************************************************)
\* most lines `git status --porcelain` prints in a run
MaxFiles == 2
\* most commits the branch is ahead of its remote ref
MaxAhead == 2
\* most stdout/stderr chunks git push emits
MaxChunks == 1
\* most spinner frames drawn before the push process closes
MaxTicks == 11

(***************************************************************************)
(* String helpers (JavaScript String methods on character sequences)       *)
(***************************************************************************)
Min(a, b) == IF a < b THEN a ELSE b

\* white space String.prototype.trim() removes
IsWhiteSpace(c) == c \in {" ", "\n", "\t"}

RECURSIVE TrimStart(_)
TrimStart(s) ==
    IF s # <<>> /\ IsWhiteSpace(Head(s)) THEN TrimStart(Tail(s)) ELSE s

RECURSIVE TrimEnd(_)
TrimEnd(s) ==
    IF s # <<>> /\ IsWhiteSpace(s[Len(s)]) THEN TrimEnd(SubSeq(s, 1, Len(s) - 1)) ELSE s

\* s.trim()
Trim(s) == TrimEnd(TrimStart(s))

\* s.substring(from, to), 0-based, `to` exclusive, clamped to the length
Substring(s, from, to) == SubSeq(s, Min(from, Len(s)) + 1, Min(to, Len(s)))

\* s.substring(from)
SubstringFrom(s, from) == Substring(s, from, Len(s))

\* s.includes(c) for a one-character c
Includes(s, c) == \E i \in DOMAIN s : s[i] = c

\* s.startsWith(p) at 1-based position i
MatchesAt(s, p, i) ==
    /\ i + Len(p) - 1 <= Len(s)
    /\ \A k \in 1..Len(p) : s[i + k - 1] = p[k]

\* s.includes(p) for a string p
Contains(s, p) == \E i \in 1..(Len(s) + 1) : MatchesAt(s, p, i)

\* s.endsWith(c) for a one-character c
EndsWith(s, c) == s # <<>> /\ s[Len(s)] = c

\* s.split(sep) for a non-empty separator string
RECURSIVE SplitFrom(_, _, _, _)
SplitFrom(s, sep, i, cur) ==
    IF i > Len(s) THEN <<cur>>
    ELSE IF MatchesAt(s, sep, i) THEN <<cur>> \o SplitFrom(s, sep, i + Len(sep), <<>>)
    ELSE SplitFrom(s, sep, i + 1, Append(cur, s[i]))

Split(s, sep) == SplitFrom(s, sep, 1, <<>>)

\* array.filter(Boolean) on an array of strings: drops the empty ones
FilterBoolean(a) == SelectSeq(a, LAMBDA x : x # <<>>)

\* array.join(sep)
RECURSIVE Join(_, _)
Join(a, sep) ==
    IF a = <<>> THEN <<>>
    ELSE IF Len(a) = 1 THEN a[1]
    ELSE a[1] \o sep \o Join(Tail(a), sep)

\* c.toUpperCase() for one character: letters change, everything else is kept
ToUpperCase(c) ==
    CASE c = "a" -> "A"
      [] c = "b" -> "B"
      [] c = "j" -> "J"
      [] c = "s" -> "S"
      [] OTHER -> c

\* c.toLowerCase() for one character
ToLowerCase(c) ==
    CASE c = "A" -> "a"
      [] c = "B" -> "b"
      [] c = "J" -> "j"
      [] c = "S" -> "s"
      [] OTHER -> c

\* the elements of a sequence
Range(a) == {a[i] : i \in DOMAIN a}

(***************************************************************************)
(* Stager: parsing of `git status --porcelain`                             *)
(***************************************************************************)
\* fileStatus table
fileStatus ==
    [MODIFIED |-> "M", ADDED |-> "A", DELETED |-> "D",
     RENAMED |-> "R", UNTRACKED |-> "?", UNMERGED |-> "U"]

\* the if / else-if chain that picks displayStatus
DisplayStatus(status) ==
    IF Includes(status, fileStatus.MODIFIED) THEN "Modified"
    ELSE IF Includes(status, fileStatus.ADDED) THEN "Added"
    ELSE IF Includes(status, fileStatus.DELETED) THEN "Deleted"
    ELSE IF Includes(status, fileStatus.RENAMED) THEN "Renamed"
    ELSE IF Includes(status, fileStatus.UNTRACKED) THEN "Untracked"
    ELSE IF Includes(status, fileStatus.UNMERGED) THEN "Unmerged"
    ELSE ""

\* status[0] !== " " && status[0] !== "?"   (status[0] of "" is undefined)
IsStagedOf(status) ==
    IF status = <<>> THEN TRUE ELSE status[1] # " " /\ status[1] # "?"

\* the .map callback of getChangedFiles: one porcelain line to one file record
ParseStatusLine(line) ==
    LET status == Trim(Substring(line, 0, 2))
        filePath == SubstringFrom(line, 3)
    IN [status |-> status,
        displayStatus |-> DisplayStatus(status),
        filePath |-> filePath,
        isStaged |-> IsStagedOf(status)]

\* statusOutput.split("\n").filter(Boolean).map(...)
ParseStatus(raw) ==
    LET lines == FilterBoolean(Split(raw, <<"\n">>))
    IN [i \in 1..Len(lines) |-> ParseStatusLine(lines[i])]


\* path.extname(p): from the last "." of the base name, "" when there is none
\* or when the base name starts with its only "."
LastIndexOf(s, c) ==
    IF Includes(s, c) THEN CHOOSE i \in DOMAIN s : s[i] = c /\ \A j \in DOMAIN s : s[j] = c => j <= i
    ELSE 0

BaseName(p) == SubSeq(p, LastIndexOf(p, "/") + 1, Len(p))

ExtName(p) ==
    LET base == BaseName(p)
        dot == LastIndexOf(base, ".")
    IN IF dot <= 1 THEN <<>> ELSE SubSeq(base, dot, Len(base))

\* s.toLowerCase()
LowerCase(s) == [i \in DOMAIN s |-> ToLowerCase(s[i])]

\* array.map(f) keeping array.filter(p)
FilePaths(files) == [i \in DOMAIN files |-> files[i].filePath]

\* changedFiles.filter((file) => file.isStaged)
StagedOf(files) == SelectSeq(files, LAMBDA f : f.isStaged)

\* changedFiles.filter((file) => !file.isStaged)
\* an unstaged list that keeps every file of the snapshot
UnstagedOfKeepsAll(files) == files

UnstagedOf(files) == SelectSeq(files, LAMBDA f : ~f.isStaged)

\* Array.from(new Set(unstaged.map(extname).filter(Boolean).map(lower))): the
\* distinct lower-cased extensions, in order of first occurrence
RECURSIVE Dedup(_)
Dedup(a) ==
    IF a = <<>> THEN <<>>
    ELSE LET init == Dedup(SubSeq(a, 1, Len(a) - 1))
             last == a[Len(a)]
         IN IF last \in Range(init) THEN init ELSE Append(init, last)

Extensions(unstaged) ==
    LET exts == [i \in DOMAIN unstaged |-> ExtName(unstaged[i].filePath)]
        nonEmpty == FilterBoolean(exts)
    IN Dedup([i \in DOMAIN nonEmpty |-> LowerCase(nonEmpty[i])])

\* unstagedFiles.filter(f => selectedExtensions.includes(extname(f).toLowerCase()))
\*              .map(f => f.filePath)
FilesOfExtensions(unstaged, selectedExtensions) ==
    FilePaths(SelectSeq(unstaged,
        LAMBDA f : LowerCase(ExtName(f.filePath)) \in Range(selectedExtensions)))

\* the subsequences of a sequence (a multiselect answer keeps the choices' order)
RECURSIVE SubSeqs(_)
SubSeqs(a) ==
    IF a = <<>> THEN {<<>>}
    ELSE LET rest == SubSeqs(Tail(a))
         IN rest \cup {<<Head(a)>> \o r : r \in rest}

(***************************************************************************)
(* Stager: the repository states the run can start from                    *)
(***************************************************************************)
\* two-character XY codes `git status --porcelain` prints
StatusCodes ==
    { <<" ", "M">>, <<"M", " ">>, <<"A", "M">>, <<"A", "D">>, <<" ", "D">>,
      <<"R", " ">>, <<"R", "D">>, <<"D", "U">>, <<"U", "U">>, <<" ", "T">>,
      <<"?", "?">> }

\* paths of the working tree, in the order git lists them
PathNames ==
    << <<"a", ".", "j", "s">>, <<"b", ".", "J", "S">>, <<"c">> >>

\* a porcelain line: XY, a blank, the path
StatusLine(code, path) == code \o <<" ">> \o path

\* the outputs of `git status --porcelain`: at most MaxFiles lines, one per
\* changed path, untracked paths after the tracked ones, "\n" after each line
StatusOutputs ==
    LET chosen == {p \in SubSeqs(PathNames) : Len(p) <= MaxFiles}
        untrackedLast(c) ==
            \A i, j \in DOMAIN c : (i < j /\ c[i] = <<"?", "?">>) => c[j] = <<"?", "?">>
    IN { Join([i \in DOMAIN p |-> StatusLine(c[i], p[i]) \o <<"\n">>], <<>>) :
             <<p, c>> \in { pc2 \in UNION { {p} \X [DOMAIN p -> StatusCodes] : p \in chosen } :
                             untrackedLast(pc2[2]) } }

\* `git ls-files --modified --others --exclude-standard`: the paths whose work
\* tree differs from the index, and the untracked ones
LsFilesModifiedOthers(raw) ==
    LET lines == FilterBoolean(Split(raw, <<"\n">>))
        listed == SelectSeq(lines,
                    LAMBDA l : l[2] \in {"M", "D", "T", "U"} \/ (l[1] = "?" /\ l[2] = "?"))
    IN [i \in DOMAIN listed |-> SubstringFrom(listed[i], 3)]

(***************************************************************************)
(* Process control shared by the three tools                               *)
(***************************************************************************)
\* process.exit(code) after printing msgs; code 0 is also the exit of a main()
\* that returns
Exit(code, msgs) ==
    /\ pc' = "exited"
    /\ exitCode' = code
    /\ out' = out \o msgs

\* a prompt is put on screen and main() waits at `at`
Ask(name, at) ==
    /\ pc' = at
    /\ promptLog' = Append(promptLog, name)

\* answers of a confirm prompt: yes, no, or cancelled (no onCancel: undefined)
ConfirmAnswers == {"true", "false", Undefined}

\* what the user can type at a confirm prompt: Enter, y, n, or a cancel
ConfirmKeys == {<<>>, <<"y">>, <<"n">>, <<"esc">>}

\* a confirm prompt on which Enter always means yes
ConfirmAnswerEnterIsYes(typed, initial) ==
    IF typed = <<"y">> \/ typed = <<>> THEN "true"
    ELSE IF typed = <<"n">> THEN "false"
    ELSE Undefined

\* the value a confirm prompt returns: y / n, `initial` on Enter, undefined
\* when the prompt was cancelled
ConfirmAnswer(typed, initial) ==
    IF typed = <<"y">> THEN "true"
    ELSE IF typed = <<"n">> THEN "false"
    ELSE IF typed = <<>> THEN initial
    ELSE Undefined

\* Array.prototype.indexOf: the 0-based position of x in a, -1 when absent
IndexOf(a, x) ==
    IF \E i \in DOMAIN a : a[i] = x
    THEN (CHOOSE i \in DOMAIN a : a[i] = x /\ \A j \in DOMAIN a : a[j] = x => i <= j) - 1
    ELSE -1

\* the value a select prompt returns: the cursor starts on choice `initial`
\* (0-based) and each "down" moves it to the next choice, wrapping around
SelectAnswer(choices, initial, typed) ==
    choices[((initial + Len(typed)) % Len(choices)) + 1]

\* one entry of the log of what was typed
Key(prompt, typed) == [prompt |-> prompt, typed |-> typed]

\* a confirm test that takes everything but an explicit "no" for a yes
ConfirmedUnlessNo(answer) == answer # "false"

\* the test of a confirm answer: if (confirmCommit), if (!confirmStage),
\* if (!confirmPush)
Confirmed(answer) == answer = "true"

\* exit codes of a child process (0 success, 1 failure)
ChildExitCodes == {0, 1}

idleHook ==
    /\ commitSource = ""
    /\ markerFiles = FALSE
    /\ isTTY = TRUE
    /\ msgFile = <<>>
    /\ writes = 0

idleStager ==
    /\ statusOutput = <<>>
    /\ changedFiles = <<>>
    /\ selectionMode = Undefined
    /\ filesToStage = <<>>

idleCommit ==
    /\ stagedFiles = <<>>
    /\ scopeSuggestion = <<>>
    /\ scope = <<>>
    /\ commitMessage = <<>>
    /\ envValue = <<>>

idlePush ==
    /\ currentBranch = <<>>
    /\ remotes = <<>>
    /\ remoteRefs = {}
    /\ ahead = 0
    /\ unpushedCommits = <<>>
    /\ pushCommand = <<>>
    /\ spinnerIndex = 0
    /\ stillRunning = FALSE
    /\ spinnerInterval = FALSE
    /\ output = <<>>
    /\ pushExit = 0
    /\ framesWritten = 0

processStart ==
    /\ pc = "start"
    /\ exitCode = 0
    /\ out = <<>>
    /\ promptLog = <<>>
    /\ gitCalls = <<>>
    /\ finalAnswer = "pending"
    /\ keys = <<>>

InitStager ==
    /\ tool = "stager"
    /\ processStart
    /\ idleHook
    /\ response = <<>>
    /\ statusOutput \in StatusOutputs
    /\ changedFiles = <<>>
    /\ selectionMode = Undefined
    /\ filesToStage = <<>>
    /\ idleCommit
    /\ idlePush

(***************************************************************************)
(* Stager: main()                                                          *)
(***************************************************************************)
\* execSync(`git add "<p1>" "<p2>" ...`): one call for all the selected paths
\* a staging call that covers the first selected path only
GitAddFirstOnly(paths) == [op |-> "add", paths |-> <<paths[1]>>]

GitAdd(paths) == [op |-> "add", paths |-> paths]

\* lines 326-405: take the status snapshot, leave on no change, offer the
\* commit wizard when everything is staged, else ask for the selection mode
StagerGetChangedFiles ==
    /\ tool = "stager" /\ pc = "start"
    /\ \E statusOk \in BOOLEAN :
         /\ changedFiles' = IF statusOk THEN ParseStatus(statusOutput) ELSE <<>>
         /\ IF changedFiles' = <<>>
            THEN Exit(0, <<"NoChanges">>) /\ UNCHANGED promptLog
            ELSE IF UnstagedOf(changedFiles') = <<>>
            THEN Ask("proceedToCommitAllStaged", "askAllStaged") /\ out' = Append(out, "NoUnstaged")
                 /\ UNCHANGED exitCode
            ELSE Ask("selectionMode", "askSelectionMode") /\ UNCHANGED <<out, exitCode>>
    /\ UNCHANGED <<tool, hookVars, keys, finalAnswer, gitCalls, statusOutput, selectionMode, filesToStage, response>>
    /\ UNCHANGED <<commitVars, pushVars>>

\* lines 375-388: everything is staged; launch the commit wizard or leave.
\* The execSync is outside any try: a failing wizard rejects main(), which the
\* top-level catch turns into exit code 1.
StagerAllStagedAnswer ==
    /\ tool = "stager" /\ pc = "askAllStaged"
    /\ \E proceedToCommit \in ConfirmAnswers, childExit \in ChildExitCodes :
         IF proceedToCommit = "true"
         THEN IF childExit = 0
              THEN Exit(0, <<"LaunchCommit">>)
              ELSE Exit(1, <<"LaunchCommit", "Error">>)
         ELSE Exit(0, <<>>)
    /\ UNCHANGED <<tool, hookVars, keys, finalAnswer, promptLog, gitCalls, stagerVars, response, commitVars, pushVars>>

\* line 491-494: nothing selected ends the run with code 1; else lines 496-508
\* preview the selection and ask "Stage N file(s)?"
StagerCheckSelection(files) ==
    IF files = <<>>
    THEN Exit(1, <<"NoFilesSelected">>) /\ UNCHANGED promptLog
    ELSE Ask("confirmStage", "askConfirmStage") /\ UNCHANGED <<out, exitCode>>

\* lines 399-411, 436-439: the answer of "How would you like to select files?"
\* (a cancelled prompt answers undefined and no branch of the chain is taken)
StagerSelectMode ==
    /\ tool = "stager" /\ pc = "askSelectionMode"
    /\ \E mode \in {"all", "individual", "type", "pattern", Undefined} :
         /\ selectionMode' = mode
         /\ CASE mode = "all" ->
                   /\ filesToStage' = FilePaths(UnstagedOf(changedFiles))
                   /\ StagerCheckSelection(filesToStage')
              [] mode = "individual" ->
                   /\ Ask("selectedFiles", "askSelectedFiles")
                   /\ UNCHANGED <<filesToStage, out, exitCode>>
              [] mode = "type" ->
                   IF Extensions(UnstagedOf(changedFiles)) = <<>>
                   THEN Exit(0, <<"NoExtensions">>) /\ UNCHANGED <<filesToStage, promptLog>>
                   ELSE /\ Ask("selectedExtensions", "askSelectedExtensions")
                        /\ UNCHANGED <<filesToStage, out, exitCode>>
              [] mode = "pattern" ->
                   /\ Ask("pattern", "askPattern")
                   /\ UNCHANGED <<filesToStage, out, exitCode>>
              [] OTHER ->
                   /\ filesToStage' = <<>>
                   /\ StagerCheckSelection(filesToStage')
    /\ UNCHANGED <<tool, hookVars, keys, finalAnswer, gitCalls, statusOutput, changedFiles, response>>
    /\ UNCHANGED <<commitVars, pushVars>>

\* lines 413-424: the multiselect of individual files (min: 1).  A cancelled
\* prompt leaves selectedFiles undefined; filesToStage.length then throws and
\* the top-level catch exits with code 1.
StagerSelectFiles ==
    /\ tool = "stager" /\ pc = "askSelectedFiles"
    /\ \/ \E selectedFiles \in SubSeqs(FilePaths(UnstagedOf(changedFiles))) \ {<<>>} :
            /\ filesToStage' = selectedFiles
            /\ StagerCheckSelection(filesToStage')
       \/ /\ filesToStage' = UndefinedStr
          /\ Exit(1, <<"Error">>)
          /\ UNCHANGED promptLog
    /\ UNCHANGED <<tool, hookVars, keys, finalAnswer, gitCalls, statusOutput, changedFiles, selectionMode, response>>
    /\ UNCHANGED <<commitVars, pushVars>>

\* lines 441-456: the multiselect of extensions (min: 1).  A cancelled prompt
\* leaves selectedExtensions undefined; .includes then throws inside filter and
\* the top-level catch exits with code 1.
StagerSelectExtensions ==
    /\ tool = "stager" /\ pc = "askSelectedExtensions"
    /\ \/ \E selectedExtensions \in SubSeqs(Extensions(UnstagedOf(changedFiles))) \ {<<>>} :
            /\ filesToStage' = FilesOfExtensions(UnstagedOf(changedFiles), selectedExtensions)
            /\ StagerCheckSelection(filesToStage')
       \/ /\ Exit(1, <<"Error">>)
          /\ UNCHANGED <<filesToStage, promptLog>>
    /\ UNCHANGED <<tool, hookVars, keys, finalAnswer, gitCalls, statusOutput, changedFiles, selectionMode, response>>
    /\ UNCHANGED <<commitVars, pushVars>>

\* lines 458-488: the pattern prompt.  An empty or cancelled answer exits 1;
\* otherwise `git ls-files ... | grep -E pattern` lists the matching paths
\* (grep decides which: any subset), and an empty match makes the pipeline fail,
\* which the catch reports as no match, exit 1.
StagerEnterPattern ==
    /\ tool = "stager" /\ pc = "askPattern"
    /\ \/ Exit(1, <<"NoPattern">>) /\ UNCHANGED <<filesToStage, promptLog>>
       \/ \E matched \in SubSeqs(LsFilesModifiedOthers(statusOutput)) :
            IF matched = <<>>
            THEN Exit(1, <<"NoMatch">>) /\ UNCHANGED <<filesToStage, promptLog>>
            ELSE /\ filesToStage' = matched
                 /\ StagerCheckSelection(filesToStage')
    /\ UNCHANGED <<tool, hookVars, keys, finalAnswer, gitCalls, statusOutput, changedFiles, selectionMode, response>>
    /\ UNCHANGED <<commitVars, pushVars>>

\* lines 510-552: the answer of "Stage N file(s)?".  Declined or cancelled:
\* "Staging canceled", process.exit(0).  Confirmed: one git add over all the
\* selected paths; when it (or the git status -s after it) throws, the catch
\* reports a staging failure and exits 1; else the offer to commit is shown.
StagerConfirmStage ==
    /\ tool = "stager" /\ pc = "askConfirmStage"
    /\ \E confirmStage \in ConfirmAnswers, addOk \in BOOLEAN, statusOk \in BOOLEAN :
         /\ finalAnswer' = confirmStage
         /\ IF ~Confirmed(confirmStage)
            THEN Exit(0, <<"StagingCanceled">>) /\ UNCHANGED <<gitCalls, promptLog>>
            ELSE /\ gitCalls' = Append(gitCalls, GitAdd(filesToStage))
                 /\ IF ~addOk
                    THEN Exit(1, <<"FailedToStage">>) /\ UNCHANGED promptLog
                    ELSE IF ~statusOk
                    THEN Exit(1, <<"Staged", "FailedToStage">>) /\ UNCHANGED promptLog
                    ELSE /\ Ask("proceedToCommit", "askProceedToCommit")
                         /\ out' = out \o <<"Staged", "StagingArea">>
                         /\ UNCHANGED exitCode
    /\ UNCHANGED <<tool, hookVars, keys, stagerVars, response, commitVars, pushVars>>

\* lines 554-567: the answer of "Would you like to proceed to commit?".  The
\* commit wizard runs as a child inside the try: when it exits non-zero the
\* catch reports a staging failure and exits 1.
StagerProceedAnswer ==
    /\ tool = "stager" /\ pc = "askProceedToCommit"
    /\ \E proceedToCommit \in ConfirmAnswers, childExit \in ChildExitCodes :
         IF proceedToCommit = "true"
         THEN IF childExit = 0
              THEN Exit(0, <<"LaunchCommit">>)
              ELSE Exit(1, <<"LaunchCommit", "FailedToStage">>)
         ELSE Exit(0, <<"RunCommitLater">>)
    /\ UNCHANGED <<tool, hookVars, keys, finalAnswer, promptLog, gitCalls, stagerVars, response, commitVars, pushVars>>

NextStager ==
    \/ StagerGetChangedFiles
    \/ StagerAllStagedAnswer
    \/ StagerSelectMode
    \/ StagerSelectFiles
    \/ StagerSelectExtensions
    \/ StagerEnterPattern
    \/ StagerConfirmStage
    \/ StagerProceedAnswer

SpecStager == InitStager /\ [][NextStager]_vars

(***************************************************************************)
(* Commit Composer: scope suggestion, subject validation, message assembly *)
(***************************************************************************)
\* the alternatives of the branch regex, each with the "/" that follows it
BranchPrefixes ==
    { <<"f","e","a","t","u","r","e","/">>, <<"f","e","a","t","/">>, <<"f","i","x","/">>,
      <<"d","o","c","s","/">>, <<"s","t","y","l","e","/">>,
      <<"r","e","f","a","c","t","o","r","/">>, <<"p","e","r","f","/">>,
      <<"t","e","s","t","/">>, <<"b","u","i","l","d","/">>, <<"c","i","/">>,
      <<"c","h","o","r","e","/">>, <<"r","e","v","e","r","t","/">> }

\* a capture that runs over hyphens to the end of the name
UpToEnd(s) == s

\* the longest prefix of s without a hyphen: what ([^-]+) captures
RECURSIVE UpToHyphen(_)
UpToHyphen(s) ==
    IF s = <<>> \/ Head(s) = "-" THEN <<>> ELSE <<Head(s)>> \o UpToHyphen(Tail(s))

\* branch.match(/^(?:feature|feat|...|revert)\/([^-]+)/): the capture, or ""
\* when the branch does not match
ScopeSuggestionOf(branch) ==
    LET hits == {p \in BranchPrefixes : MatchesAt(branch, p, 1)}
    IN IF hits = {} THEN <<>>
       ELSE LET p == CHOOSE q \in hits : TRUE
            IN UpToHyphen(SubSeq(branch, Len(p) + 1, Len(branch)))

\* the validate callback of the subject prompt: "ok" for true, else the message
ValidateSubject(value) ==
    IF value = <<>> THEN "Description is required"
    ELSE IF value[1] # ToUpperCase(value[1])
    THEN "Description must start with uppercase letter"
    ELSE IF EndsWith(value, ".") THEN "Description should not end with a period"
    ELSE "ok"

\* JavaScript truthiness of a string value
Truthy(str) == str # <<>> /\ str # UndefinedStr

NewLines == <<"\n", "\n">>
BreakingPrefix ==
    <<"B","R","E","A","K","I","N","G"," ","C","H","A","N","G","E",":"," ">>
BreakingDefault ==
    <<"B","r","e","a","k","i","n","g"," ","c","h","a","n","g","e","s"," ",
      "i","n","t","r","o","d","u","c","e","d">>

\* a message assembly that appends the body section without testing the body
AssembleMessageAlwaysBody(r, sc) ==
    LET scopeText == IF Truthy(sc) THEN <<"(">> \o sc \o <<")">> ELSE <<>>
        head == r.type \o scopeText \o <<":", " ">> \o r.subject
        withBody == head \o NewLines \o (IF Truthy(r.body) THEN r.body ELSE <<>>)
        withBreaking ==
            IF r.breaking = "true"
            THEN withBody \o NewLines \o BreakingPrefix \o
                 (IF Truthy(r.breakingBody) THEN r.breakingBody ELSE BreakingDefault)
            ELSE withBody
    IN IF r.issues = "true" /\ Truthy(r.issuesBody)
       THEN withBreaking \o NewLines \o r.issuesBody
       ELSE withBreaking

\* lines 253-272: the message built from the answers and the resolved scope
AssembleMessage(r, sc) ==
    LET scopeText == IF Truthy(sc) THEN <<"(">> \o sc \o <<")">> ELSE <<>>
        head == r.type \o scopeText \o <<":", " ">> \o r.subject
        withBody == IF Truthy(r.body) THEN head \o NewLines \o r.body ELSE head
        withBreaking ==
            IF r.breaking = "true"
            THEN withBody \o NewLines \o BreakingPrefix \o
                 (IF Truthy(r.breakingBody) THEN r.breakingBody ELSE BreakingDefault)
            ELSE withBody
    IN IF r.issues = "true" /\ Truthy(r.issuesBody)
       THEN withBreaking \o NewLines \o r.issuesBody
       ELSE withBreaking

\* commitMessage.replace(/"/g, '\\"')
RECURSIVE EscapeQuotes(_)
EscapeQuotes(s) ==
    IF s = <<>> THEN <<>>
    ELSE (IF Head(s) = "\"" THEN <<"\\", "\"">> ELSE <<Head(s)>>) \o EscapeQuotes(Tail(s))

(***************************************************************************)
(* The shell that execSync hands the command line to (/bin/sh -c)          *)
(***************************************************************************)
IsNameStart(c) == c \in {"A", "a", "b", "j", "s", "v", "x", "_"}
IsDigit(c) == c \in {"0", "1"}

\* how many characters after position i form the parameter of a "$" at i:
\* one digit (a positional parameter), or a name, or none
RECURSIVE NameRun(_, _)
NameRun(s, j) ==
    IF j <= Len(s) /\ (IsNameStart(s[j]) \/ IsDigit(s[j])) THEN 1 + NameRun(s, j + 1) ELSE 0

ParamLen(s, i) ==
    IF i >= Len(s) THEN 0
    ELSE IF IsDigit(s[i + 1]) THEN 1
    ELSE IF IsNameStart(s[i + 1]) THEN NameRun(s, i + 1)
    ELSE 0

\* the value of the parameter of a "$" at i: positional parameters are unset
\* under sh -c, a named variable has the environment's value
ParamValue(s, i, env) == IF IsDigit(s[i + 1]) THEN <<>> ELSE env

\* Word parsing of the text that follows `git commit -m `.  mode "U" is
\* unquoted, "D" inside double quotes.  The result tells whether the first
\* command was complete (ran), the words it received after -m (args), and
\* whether the command line ended there (clean): text after an unquoted
\* newline is a further command.  An unterminated quote is a syntax error and
\* nothing runs.  (Inside double quotes a backslash also escapes a backquote,
\* a character no modelled input holds.)
RECURSIVE ShellParse(_, _, _, _, _, _, _)
ShellParse(s, i, mode, cur, inWord, words, env) ==
    LET flush == IF inWord THEN Append(words, cur) ELSE words
        c == s[i]
        hasNext == i < Len(s)
        n == ParamLen(s, i)
    IN IF i > Len(s)
       THEN IF mode = "D"
            THEN [ran |-> FALSE, args |-> <<>>, clean |-> FALSE]
            ELSE [ran |-> TRUE, args |-> flush, clean |-> TRUE]
       ELSE IF c = "$" /\ n > 0
       THEN ShellParse(s, i + 1 + n, mode, cur \o ParamValue(s, i, env),
                       inWord \/ mode = "D" \/ ParamValue(s, i, env) # <<>>, words, env)
       ELSE IF mode = "U"
       THEN CASE c = "\n" -> [ran |-> TRUE, args |-> flush, clean |-> ~hasNext]
              [] c = " " -> ShellParse(s, i + 1, "U", <<>>, FALSE, flush, env)
              [] c = "\"" -> ShellParse(s, i + 1, "D", cur, TRUE, words, env)
              [] c = "\\" /\ hasNext /\ s[i + 1] = "\n" ->
                    ShellParse(s, i + 2, "U", cur, inWord, words, env)
              [] c = "\\" /\ hasNext /\ s[i + 1] # "\n" ->
                    ShellParse(s, i + 2, "U", Append(cur, s[i + 1]), TRUE, words, env)
              [] OTHER -> ShellParse(s, i + 1, "U", Append(cur, c), TRUE, words, env)
       ELSE CASE c = "\"" -> ShellParse(s, i + 1, "U", cur, TRUE, words, env)
              [] c = "\\" /\ hasNext /\ s[i + 1] \in {"$", "\"", "\\"} ->
                    ShellParse(s, i + 2, "D", Append(cur, s[i + 1]), TRUE, words, env)
              [] c = "\\" /\ hasNext /\ s[i + 1] = "\n" ->
                    ShellParse(s, i + 2, "D", cur, TRUE, words, env)
              [] OTHER -> ShellParse(s, i + 1, "D", Append(cur, c), TRUE, words, env)

\* execSync(`git commit -m "${commitMessage.replace(/"/g, '\\"')}"`): what the
\* shell makes of the command line
ShellCommit(message, env) ==
    ShellParse(<<"\"">> \o EscapeQuotes(message) \o <<"\"">>, 1, "U", <<>>, FALSE, <<>>, env)

\* the commit operation as git receives it
GitCommit(args) == [op |-> "commit", args |-> args]

(***************************************************************************)
(* Commit Composer: the inputs of a run                                    *)
(***************************************************************************)
\* values of COMMIT_TYPES the user picks among
CommitTypes == { <<"f","e","a","t">>, <<"f","i","x">> }

\* values of COMMON_SCOPES the user picks among
CommonScopes == { <<"a","p","i">>, <<"o","t","h","e","r">> }
OtherScope == <<"o","t","h","e","r">>

\* branch names `git branch --show-current` prints
BranchNames == { <<"m">>, <<"f","i","x","/","u","i","-","1">> }

\* outputs of `git diff --cached --name-only`, already split and filtered
StagedLists == { <<>>, <<PathNames[1]>> }

\* what the user may type in the subject prompt
SubjectInputs ==
    { <<>>, <<"a">>, <<"A">>, <<"A", ".">>, <<"1", "a">>, <<".", "a">>, <<"A", "$", "a">>,
      <<"A", "\"">>, <<"A", "\\">>, <<"\\", "\"">> }

\* what the user may type in the free-text prompts
ScopeInputs == { <<>>, <<"s">> }
BodyInputs == { <<>>, <<"b">> }
BreakingInputs == { <<>>, <<"x">> }
IssuesInputs == { <<>>, <<"#", "1">> }

\* values the environment may give a variable the shell expands
EnvValues == { <<>>, <<"v">> }

\* a text prompt returns what was typed, or its `initial` when nothing was
TextAnswer(typed, initial) == IF typed = <<>> THEN initial ELSE typed

\* lines 154-226: the questions of the prompts() chain, in order
Questions ==
    << "type", "useCommonScope", "commonScope", "customScope", "subject", "body",
       "breaking", "breakingBody", "issues", "issuesBody" >>

\* the `type` function of a question: whether it is asked.  `prev` is the last
\* answer given: for commonScope that of useCommonScope; for customScope that
\* of commonScope when it was asked (a string, never false), else that of
\* useCommonScope; for breakingBody that of breaking; for issuesBody of issues.
IsAsked(name, r) ==
    CASE name = "commonScope" -> r.useCommonScope = "true"
      [] name = "customScope" -> r.useCommonScope = "false"
      [] name = "breakingBody" -> r.breaking = "true"
      [] name = "issuesBody" -> r.issues = "true"
      [] OTHER -> TRUE

\* the answers a question accepts
AnswersOf(name, suggestion) ==
    CASE name = "type" -> CommitTypes
      [] name = "useCommonScope" -> {"true", "false", Null}
      [] name = "commonScope" -> CommonScopes
      [] name = "customScope" -> {TextAnswer(t, suggestion) : t \in ScopeInputs}
      [] name = "subject" -> {v \in SubjectInputs : ValidateSubject(v) = "ok"}
      [] name = "body" -> BodyInputs
      [] name = "breaking" -> {"true", "false"}
      [] name = "breakingBody" -> BreakingInputs
      [] name = "issues" -> {"true", "false"}
      [] name = "issuesBody" -> IssuesInputs

\* what the user typed at a prompt with an inferred default to get `answer`;
\* <<>> for the prompts whose input is not logged
TypedOf(name, answer, suggestion) ==
    IF name = "customScope"
    THEN {t \in ScopeInputs : TextAnswer(t, suggestion) = answer}
    ELSE {<<>>}

\* the answers object before any question was answered
NoAnswers ==
    [type |-> UndefinedStr, useCommonScope |-> Undefined,
     commonScope |-> UndefinedStr, customScope |-> UndefinedStr,
     subject |-> UndefinedStr, body |-> UndefinedStr, breaking |-> Undefined,
     breakingBody |-> UndefinedStr, issues |-> Undefined, issuesBody |-> UndefinedStr,
     rejected |-> UndefinedStr]

\* index of the first question after i that is asked, 0 when the chain is over
NextQuestion(i, r) ==
    LET later == {j \in (i + 1)..Len(Questions) : IsAsked(Questions[j], r)}
    IN IF later = {} THEN 0 ELSE CHOOSE j \in later : \A k \in later : j <= k

\* index of the question on screen: the last one shown
CurrentQuestion(shown) ==
    CHOOSE i \in 1..Len(Questions) : Questions[i] = shown[Len(shown)]

InitCommit ==
    /\ tool = "commit"
    /\ processStart
    /\ idleHook
    /\ response = NoAnswers
    /\ idleStager
    /\ stagedFiles \in StagedLists
    /\ currentBranch \in BranchNames
    /\ scopeSuggestion = <<>>
    /\ scope = <<>>
    /\ commitMessage = <<>>
    /\ envValue \in EnvValues
    /\ remotes = <<>>
    /\ remoteRefs = {}
    /\ ahead = 0
    /\ unpushedCommits = <<>>
    /\ pushCommand = <<>>
    /\ spinnerIndex = 0
    /\ stillRunning = FALSE
    /\ spinnerInterval = FALSE
    /\ output = <<>>
    /\ pushExit = 0
    /\ framesWritten = 0

(***************************************************************************)
(* Commit Composer: main()                                                 *)
(***************************************************************************)
\* a staged-files test that never fires
NoStagedFilesNever(files) == FALSE

\* line 135: stagedFiles.length === 0
NoStagedFiles(files) == files = <<>>

\* lines 132-153: leave with code 1 when nothing is staged (also when the git
\* diff failed and getStagedFiles returned []), else show the first question
ComposerCheckStaged ==
    /\ tool = "commit" /\ pc = "start"
    /\ IF NoStagedFiles(stagedFiles)
       THEN /\ Exit(1, <<"NoStagedFiles">>)
            /\ UNCHANGED <<promptLog, scopeSuggestion>>
       ELSE /\ scopeSuggestion' = ScopeSuggestionOf(currentBranch)
            /\ Ask(Questions[1], "chain")
            /\ out' = Append(out, "FilesToBeCommitted")
            /\ UNCHANGED exitCode
    /\ UNCHANGED <<tool, hookVars, keys, finalAnswer, gitCalls, response, stagerVars, stagedFiles, scope,
                   commitMessage, envValue>>
    /\ UNCHANGED pushVars

\* lines 235-251: the scope the answers give
ResolvedScope(r) ==
    IF r.useCommonScope = "true" THEN r.commonScope
    ELSE IF r.useCommonScope = "false" THEN r.customScope
    ELSE <<>>

\* lines 253-307: assemble the message, preview it, ask for the confirmation
ComposerPreview(r, sc) ==
    /\ scope' = sc
    /\ commitMessage' = AssembleMessage(r, sc)
    /\ Ask("confirmCommit", "askConfirmCommit")
    /\ out' = Append(out, "Preview")
    /\ UNCHANGED exitCode

\* lines 190-197: the subject prompt refuses a value its validate rejects and
\* stays on screen with the message
ComposerSubjectRejected ==
    /\ tool = "commit" /\ pc = "chain"
    /\ Questions[CurrentQuestion(promptLog)] = "subject"
    /\ \E value \in SubjectInputs :
         /\ ValidateSubject(value) # "ok"
         /\ response' = [response EXCEPT !.rejected = value]
    /\ UNCHANGED <<tool, hookVars, keys, finalAnswer, pc, exitCode, out, promptLog, gitCalls>>
    /\ UNCHANGED <<stagerVars, commitVars, pushVars>>

\* lines 153-251: an accepted answer of the question on screen.  The next asked
\* question is shown; after the last one the scope is resolved: "other" asks
\* for the custom scope, anything else goes on to the preview.
ComposerAnswer ==
    /\ tool = "commit" /\ pc = "chain"
    /\ LET q == CurrentQuestion(promptLog)
       IN \E answer \in AnswersOf(Questions[q], scopeSuggestion) :
          \E typed \in TypedOf(Questions[q], answer, scopeSuggestion) :
            LET r == [response EXCEPT ![Questions[q]] = answer, !.rejected = UndefinedStr]
                n == NextQuestion(q, r)
            IN /\ keys' = IF Questions[q] = "customScope"
                          THEN Append(keys, Key("customScope", typed)) ELSE keys
               /\ IF n # 0
                  THEN /\ response' = r
                       /\ Ask(Questions[n], "chain")
                       /\ UNCHANGED <<exitCode, out, scope, commitMessage>>
                  ELSE /\ response' = r
                       /\ IF ResolvedScope(r) = OtherScope
                          THEN /\ Ask("otherScope", "askOtherScope")
                               /\ scope' = OtherScope
                               /\ UNCHANGED <<exitCode, out, commitMessage>>
                          ELSE ComposerPreview(r, ResolvedScope(r))
    /\ UNCHANGED <<tool, hookVars, finalAnswer, gitCalls, stagerVars, stagedFiles, scopeSuggestion, envValue>>
    /\ UNCHANGED pushVars

\* lines 227-232: onCancel of the chain: "Commit creation canceled", exit 1
ComposerCancel ==
    /\ tool = "commit" /\ pc = "chain"
    /\ Exit(1, <<"CommitCreationCanceled">>)
    /\ UNCHANGED <<tool, hookVars, keys, finalAnswer, promptLog, gitCalls, response>>
    /\ UNCHANGED <<stagerVars, commitVars, pushVars>>

\* lines 241-247: the answer of the follow-up "Enter custom scope:" prompt,
\* which has no onCancel: a cancel leaves otherScope undefined and main() goes
\* on to the preview
ComposerOtherScopeAnswer ==
    /\ tool = "commit" /\ pc = "askOtherScope"
    /\ \E typed \in ScopeInputs \cup {<<"esc">>} :
         LET otherScope == IF typed = <<"esc">> THEN UndefinedStr
                           ELSE TextAnswer(typed, scopeSuggestion)
         IN /\ ComposerPreview(response, otherScope)
            /\ keys' = Append(keys, Key("otherScope", typed))
    /\ UNCHANGED <<tool, hookVars, finalAnswer, gitCalls, stagerVars, stagedFiles, scopeSuggestion, envValue>>
    /\ UNCHANGED <<response, pushVars>>

\* lines 309-326: the answer of "Create commit with this message?".  Confirmed:
\* one execSync of git commit; a non-zero status of the shell or of git throws,
\* which is reported and exits 1.  Declined or cancelled: exit 1.
ComposerConfirmAnswer ==
    /\ tool = "commit" /\ pc = "askConfirmCommit"
    /\ \E confirmCommit \in ConfirmAnswers, gitOk \in BOOLEAN :
         /\ finalAnswer' = confirmCommit
         /\ IF Confirmed(confirmCommit)
            THEN LET sh == ShellCommit(commitMessage, envValue)
                 IN /\ gitCalls' = IF sh.ran THEN Append(gitCalls, GitCommit(sh.args))
                                   ELSE gitCalls
                    /\ IF sh.ran /\ sh.clean /\ gitOk
                       THEN Exit(0, <<"CommitCreated">>)
                       ELSE Exit(1, <<"FailedToCreateCommit">>)
            ELSE Exit(1, <<"CommitCancelled">>) /\ UNCHANGED gitCalls
    /\ UNCHANGED <<tool, hookVars, keys, promptLog, response>>
    /\ UNCHANGED <<stagerVars, commitVars, pushVars>>

NextCommit ==
    \/ ComposerCheckStaged
    \/ ComposerSubjectRejected
    \/ ComposerAnswer
    \/ ComposerCancel
    \/ ComposerOtherScopeAnswer
    \/ ComposerConfirmAnswer

SpecCommit == InitCommit /\ [][NextCommit]_vars

(***************************************************************************)
(* Pusher: the inputs of a run                                             *)
(***************************************************************************)
\* spinnerFrames.length
SpinnerFrameCount == 10

Origin == <<"o","r","i","g","i","n">>
Upstream == <<"u","p">>

\* outputs of `git remote`, split and filtered
RemoteLists == { <<Origin>>, <<Upstream, Origin>>, <<Upstream>> }

\* outputs of `git branch --show-current`; "" on a detached HEAD
PushBranches == { <<>>, <<"d","e","v">> }

\* a remote branch name the user may type instead of the default
OtherBranch == <<"r","e","l">>

\* chunks git push writes to stdout / stderr
OutputChunks == { <<"T","o","t","a","l"," ","3","\n">>, <<"e","r","r","o","r","\n">> }

\* lines 49-61: `git log <remote>/<branch>..<branch> --oneline`, one entry per
\* commit; the command fails when the remote-tracking ref does not exist
NewBranch == <<"new-branch">>
GetUnpushedCommits(branch, remote, refs, n) ==
    IF <<remote, branch>> \in refs THEN [i \in 1..n |-> "commit"] ELSE NewBranch

\* a default remote that is always the first one listed
DefaultRemoteFirst(rs) == rs[1]

\* line 91: remotes.includes("origin") ? "origin" : remotes[0]
DefaultRemote(rs) == IF Origin \in Range(rs) THEN Origin ELSE rs[1]

\* line 163: the command line shown to the user
GitPushWords == <<"g","i","t"," ","p","u","s","h"," ">>
ForceFlag == <<"-","-","f","o","r","c","e">>
PushCommandOf(r, branch) ==
    GitPushWords \o (IF r.forcePush = "true" THEN ForceFlag \o <<" ">> ELSE <<>>)
        \o r.remote \o <<" ">> \o branch \o <<":">> \o r.branch

\* a spawn that never passes --force
GitPushNeverForce(r, branch) ==
    [op |-> "push", args |-> <<r.remote, branch \o <<":">> \o r.branch>>]

\* lines 186-195: the arguments git is spawned with
GitPush(r, branch) ==
    [op |-> "push",
     args |-> (IF r.forcePush = "true" THEN <<ForceFlag>> ELSE <<>>)
              \o <<r.remote, branch \o <<":">> \o r.branch>>]

NoPushAnswers == [remote |-> UndefinedStr, branch |-> UndefinedStr, forcePush |-> Undefined]

InitPush ==
    /\ tool = "push"
    /\ processStart
    /\ idleHook
    /\ response = NoPushAnswers
    /\ idleStager
    /\ idleCommit
    /\ currentBranch \in PushBranches
    /\ remotes \in RemoteLists
    /\ remoteRefs \in SUBSET (Range(remotes) \X {currentBranch, OtherBranch})
    /\ ahead \in 0..MaxAhead
    /\ unpushedCommits = <<>>
    /\ pushCommand = <<>>
    /\ spinnerIndex = 0
    /\ stillRunning = FALSE
    /\ spinnerInterval = FALSE
    /\ output = <<>>
    /\ pushExit \in ChildExitCodes
    /\ framesWritten = 0

(***************************************************************************)
(* Pusher: main()                                                          *)
(***************************************************************************)
\* lines 79-102: leave with code 1 without a current branch, else ask for the
\* remote
PusherStart ==
    /\ tool = "push" /\ pc = "start"
    /\ IF currentBranch = <<>>
       THEN Exit(1, <<"NoBranch">>) /\ UNCHANGED promptLog
       ELSE Ask("remote", "askRemote") /\ UNCHANGED <<out, exitCode>>
    /\ UNCHANGED <<tool, hookVars, keys, finalAnswer, gitCalls, response, stagerVars, commitVars, pushVars>>

\* lines 96-102: the answer of "Select remote to push to:"
PusherSelectRemote ==
    /\ tool = "push" /\ pc = "askRemote"
    /\ \E typed \in {<<>>, <<"down">>} :
         /\ response' = [response EXCEPT !.remote =
                SelectAnswer(remotes, IndexOf(remotes, DefaultRemote(remotes)), typed)]
         /\ keys' = Append(keys, Key("remote", typed))
    /\ Ask("branch", "askBranch")
    /\ UNCHANGED <<tool, hookVars, finalAnswer, exitCode, out, gitCalls, stagerVars, commitVars, pushVars>>

\* lines 103-108: the answer of "Branch to push to remote:" (initial: the
\* current branch)
PusherEnterBranch ==
    /\ tool = "push" /\ pc = "askBranch"
    /\ \E typed \in {<<>>, OtherBranch} :
         /\ response' = [response EXCEPT !.branch = TextAnswer(typed, currentBranch)]
         /\ keys' = Append(keys, Key("branch", typed))
    /\ Ask("forcePush", "askForcePush")
    /\ UNCHANGED <<tool, hookVars, finalAnswer, exitCode, out, gitCalls, stagerVars, commitVars, pushVars>>

\* lines 162-176: build and show the push command, ask the final confirmation
PusherShowCommand(r) ==
    /\ pushCommand' = PushCommandOf(r, currentBranch)
    /\ Ask("confirmPush", "askConfirmPush")

\* lines 109-160: the answer of "Use force push?", then the unpushed commits:
\* listed when there are some, a note for a new branch, and otherwise the
\* warning with "Continue with push anyway?"
PusherAnswerForce ==
    /\ tool = "push" /\ pc = "askForcePush"
    /\ \E typed \in ConfirmKeys \ {<<"esc">>} :
         LET r == [response EXCEPT !.forcePush = ConfirmAnswer(typed, "false")]
             commits == GetUnpushedCommits(currentBranch, r.remote, remoteRefs, ahead)
         IN /\ response' = r
            /\ keys' = Append(keys, Key("forcePush", typed))
            /\ unpushedCommits' = commits
            /\ IF Len(commits) > 0 /\ commits[1] # "new-branch"
               THEN /\ PusherShowCommand(r)
                    /\ out' = out \o <<"CommitsToBePushed", "Executing">>
               ELSE IF commits = NewBranch
               THEN /\ PusherShowCommand(r)
                    /\ out' = out \o <<"NewBranchOnRemote", "Executing">>
               ELSE /\ Ask("continueAnyway", "askContinueAnyway")
                    /\ out' = Append(out, "NoUnpushedCommits")
                    /\ UNCHANGED pushCommand
    /\ UNCHANGED <<tool, hookVars, finalAnswer, exitCode, gitCalls, stagerVars, commitVars>>
    /\ UNCHANGED <<currentBranch, remotes, remoteRefs, ahead, spinnerIndex, stillRunning,
                   spinnerInterval, output, pushExit, framesWritten>>

\* lines 116-121: onCancel of the chain: "Push canceled", exit 1
PusherCancel ==
    /\ tool = "push" /\ pc \in {"askRemote", "askBranch", "askForcePush"}
    /\ Exit(1, <<"PushCanceled">>)
    /\ UNCHANGED <<tool, hookVars, keys, finalAnswer, promptLog, gitCalls, response, stagerVars, commitVars, pushVars>>

\* lines 149-160: the answer of "Continue with push anyway?" (initial: false,
\* no onCancel)
PusherContinueAnswer ==
    /\ tool = "push" /\ pc = "askContinueAnyway"
    /\ \E typed \in ConfirmKeys :
         LET confirmPush == ConfirmAnswer(typed, "false")
         IN /\ keys' = Append(keys, Key("continueAnyway", typed))
            /\ IF ~Confirmed(confirmPush)
               THEN Exit(0, <<"PushCanceled">>) /\ UNCHANGED <<promptLog, pushCommand>>
               ELSE /\ PusherShowCommand(response)
                    /\ out' = Append(out, "Executing")
                    /\ UNCHANGED exitCode
    /\ UNCHANGED <<tool, hookVars, finalAnswer, gitCalls, response, stagerVars, commitVars>>
    /\ UNCHANGED <<currentBranch, remotes, remoteRefs, ahead, unpushedCommits, spinnerIndex,
                   stillRunning, spinnerInterval, output, pushExit, framesWritten>>

\* lines 171-211: the answer of "Push <branch> to <remote>/<branch>?".
\* Declined or cancelled: "Push canceled", process.exit(0).  Confirmed: spawn
\* git push, arm the spinner timer, register the data and close handlers.
PusherConfirmAnswer ==
    /\ tool = "push" /\ pc = "askConfirmPush"
    /\ \E typed \in ConfirmKeys :
         LET confirmPush == ConfirmAnswer(typed, "true")
         IN /\ finalAnswer' = confirmPush
            /\ keys' = Append(keys, Key("confirmPush", typed))
            /\ IF ~Confirmed(confirmPush)
               THEN /\ Exit(0, <<"PushCanceled">>)
                    /\ UNCHANGED <<gitCalls, spinnerIndex, stillRunning, spinnerInterval>>
               ELSE /\ gitCalls' = Append(gitCalls, GitPush(response, currentBranch))
                    /\ spinnerIndex' = 0
                    /\ stillRunning' = TRUE
                    /\ spinnerInterval' = TRUE
                    /\ pc' = "pushing"
                    /\ UNCHANGED <<exitCode, out>>
    /\ UNCHANGED <<tool, hookVars, promptLog, response, stagerVars, commitVars>>
    /\ UNCHANGED <<currentBranch, remotes, remoteRefs, ahead, unpushedCommits, pushCommand,
                   output, pushExit, framesWritten>>

\* a clearInterval that leaves the timer armed
ClearIntervalLeavesArmed(timer) == timer

\* line 223: clearInterval(spinnerInterval) disarms the timer
ClearInterval(timer) == FALSE

\* lines 202-209: one firing of the spinner timer, which fires for as long as
\* it is armed
PusherSpinnerTick ==
    /\ tool = "push"
    /\ spinnerInterval
    /\ framesWritten < MaxTicks
    /\ IF stillRunning
       THEN /\ framesWritten' = framesWritten + 1
            /\ spinnerIndex' = (spinnerIndex + 1) % SpinnerFrameCount
       ELSE UNCHANGED <<framesWritten, spinnerIndex>>
    /\ UNCHANGED <<tool, hookVars, keys, finalAnswer, pc, exitCode, out, promptLog, gitCalls, response>>
    /\ UNCHANGED <<stagerVars, commitVars>>
    /\ UNCHANGED <<currentBranch, remotes, remoteRefs, ahead, unpushedCommits, pushCommand,
                   stillRunning, spinnerInterval, output, pushExit>>

\* lines 213-219: a chunk arrives on stdout or stderr of git push
PusherData ==
    /\ tool = "push" /\ pc = "pushing"
    /\ Len(output) < MaxChunks
    /\ \E data \in OutputChunks : output' = Append(output, data)
    /\ UNCHANGED <<tool, hookVars, keys, finalAnswer, pc, exitCode, out, promptLog, gitCalls, response>>
    /\ UNCHANGED <<stagerVars, commitVars>>
    /\ UNCHANGED <<currentBranch, remotes, remoteRefs, ahead, unpushedCommits, pushCommand,
                   spinnerIndex, stillRunning, spinnerInterval, pushExit, framesWritten>>

\* lines 221-245: git push closed with pushExit.  The handler stops the
\* spinner and reports; it sets no exit code, so with nothing left to run the
\* process ends with code 0 either way.
PusherClose ==
    /\ tool = "push" /\ pc = "pushing"
    /\ stillRunning' = FALSE
    /\ spinnerInterval' = ClearInterval(spinnerInterval)
    /\ pc' = "exited"
    /\ out' = out \o (IF pushExit = 0
                      THEN <<"PushSuccessful", "FormattedOutput", "ChangesPushed">>
                      ELSE <<"PushFailed", "RawOutput", "TryAgain">>)
    /\ UNCHANGED <<tool, hookVars, keys, finalAnswer, exitCode, promptLog, gitCalls, response>>
    /\ UNCHANGED <<stagerVars, commitVars>>
    /\ UNCHANGED <<currentBranch, remotes, remoteRefs, ahead, unpushedCommits, pushCommand,
                   spinnerIndex, output, pushExit, framesWritten>>

NextPush ==
    \/ PusherStart
    \/ PusherSelectRemote
    \/ PusherEnterBranch
    \/ PusherAnswerForce
    \/ PusherCancel
    \/ PusherContinueAnswer
    \/ PusherConfirmAnswer
    \/ PusherSpinnerTick
    \/ PusherData
    \/ PusherClose

SpecPush == InitPush /\ [][NextPush]_vars

(***************************************************************************)
(* prepare-commit-msg hook                                                 *)
(***************************************************************************)
\* values of process.argv[3]; "" when git passes no source
CommitSources == {"", "message", "template", "merge", "squash", "commit"}

\* contents of the commit message file when the hook starts: empty, comments
\* and blank lines only, or a message
ExistingMessages ==
    { <<>>, <<"#", "c", "\n", " ", "\n">>, <<"x", "\n", "#", "c", "\n">> }

\* branch names the hook is run on
HookBranchNames ==
    BranchNames \cup
      { <<>>, <<"f","e","a","t","/","-","x">>, <<"f","e","a","t","u","r","e","/","a">>,
        <<"f","i","x","e","s","/","a">>, <<"x","/","f","i","x","/","a">> }

\* lines 79-81: the lines that are neither comments nor blank
NonCommentLines(existingMessage) ==
    SelectSeq(Split(existingMessage, <<"\n">>),
              LAMBDA line : ~MatchesAt(line, <<"#">>, 1) /\ Len(Trim(line)) > 0)

\* a hook that never skips
HookSkipsNever == FALSE

\* lines 65-91: the hook leaves at once with code 0
HookSkips ==
    \/ commitSource \in {"message", "template", "merge", "squash"}
    \/ markerFiles
    \/ Len(NonCommentLines(msgFile)) > 0
    \/ ~isTTY

\* lines 114-153: the questions of the hook's chain, in order
HookQuestions == <<"type", "scope", "subject", "body", "breaking", "issues", "confirmed">>

\* the choices of the type prompt, in order
HookCommitTypes == << <<"f","e","a","t">>, <<"f","i","x">> >>

\* what the user can type at a question of the hook (the subject prompt
\* refuses an empty value)
HookInputs(name) ==
    CASE name = "type" -> {<<>>, <<"down">>}
      [] name = "scope" -> ScopeInputs
      [] name = "subject" -> {<<"a">>, <<"A">>}
      [] name = "confirmed" -> ConfirmKeys \ {<<"esc">>}
      [] OTHER -> BodyInputs

NoHookAnswers ==
    [type |-> UndefinedStr, scope |-> UndefinedStr, subject |-> UndefinedStr,
     body |-> UndefinedStr, breaking |-> UndefinedStr, issues |-> UndefinedStr,
     confirmed |-> Undefined]

\* the answers after `typed` was entered at question `name`
HookAnswered(r, name, typed, suggestion) ==
    CASE name = "type" -> [r EXCEPT !.type = SelectAnswer(HookCommitTypes, 0, typed)]
      [] name = "scope" -> [r EXCEPT !.scope = TextAnswer(typed, suggestion)]
      [] name = "subject" -> [r EXCEPT !.subject = typed]
      [] name = "body" -> [r EXCEPT !.body = typed]
      [] name = "breaking" -> [r EXCEPT !.breaking = typed]
      [] name = "issues" -> [r EXCEPT !.issues = typed]
      [] name = "confirmed" -> [r EXCEPT !.confirmed = ConfirmAnswer(typed, "true")]

\* lines 168-191: the message the hook writes
HookMessage(r) ==
    LET scopeText == IF Truthy(r.scope) THEN <<"(">> \o r.scope \o <<")">> ELSE <<>>
        subject == <<ToUpperCase(r.subject[1])>> \o Tail(r.subject)
        head == r.type \o scopeText \o <<":", " ">> \o subject
        withBody == IF Truthy(r.body) THEN head \o NewLines \o r.body ELSE head
        withBreaking ==
            IF Truthy(r.breaking)
            THEN withBody \o NewLines \o BreakingPrefix \o r.breaking
            ELSE withBody
    IN IF Truthy(r.issues)
       THEN withBreaking \o NewLines \o <<"C","l","o","s","e","s",":"," ">> \o r.issues
       ELSE withBreaking

InitHook ==
    /\ tool = "hook" /\ processStart
    /\ commitSource \in CommitSources
    /\ markerFiles \in BOOLEAN
    /\ isTTY \in BOOLEAN
    /\ msgFile \in ExistingMessages
    /\ writes = 0
    /\ response = NoHookAnswers
    /\ idleStager
    /\ idleCommit
    /\ currentBranch \in HookBranchNames
    /\ remotes = <<>>
    /\ remoteRefs = {}
    /\ ahead = 0
    /\ unpushedCommits = <<>>
    /\ pushCommand = <<>>
    /\ spinnerIndex = 0
    /\ stillRunning = FALSE
    /\ spinnerInterval = FALSE
    /\ output = <<>>
    /\ pushExit = 0
    /\ framesWritten = 0

\* lines 60-112: leave with code 0 when a skip condition holds; else infer the
\* scope from the branch and show the first question
HookStart ==
    /\ tool = "hook" /\ pc = "start"
    /\ IF HookSkips
       THEN Exit(0, <<>>) /\ UNCHANGED <<promptLog, scopeSuggestion>>
       ELSE /\ scopeSuggestion' = ScopeSuggestionOf(currentBranch)
            /\ Ask(HookQuestions[1], "hookChain")
            /\ UNCHANGED <<exitCode, out>>
    /\ UNCHANGED <<tool, hookVars, keys, finalAnswer, gitCalls, response, stagerVars>>
    /\ UNCHANGED <<stagedFiles, scope, commitMessage, envValue, pushVars>>

\* lines 112-204: an answer of the question on screen.  After the last one:
\* not confirmed prints the cancel message and exits 1; confirmed builds the
\* message, calls writeFileSync once and reports it; a write that throws
\* leaves the file as it was and the top-level catch exits 1.
HookAnswer ==
    /\ tool = "hook" /\ pc = "hookChain"
    /\ LET q == CHOOSE i \in DOMAIN HookQuestions :
                   HookQuestions[i] = promptLog[Len(promptLog)]
       IN \E typed \in HookInputs(HookQuestions[q]), writeOk \in BOOLEAN :
            LET r == HookAnswered(response, HookQuestions[q], typed, scopeSuggestion)
            IN /\ response' = r
               /\ keys' = Append(keys, Key(HookQuestions[q], typed))
               /\ IF q < Len(HookQuestions)
                  THEN /\ Ask(HookQuestions[q + 1], "hookChain")
                       /\ UNCHANGED <<exitCode, out, finalAnswer, commitMessage, msgFile, writes>>
                  ELSE /\ finalAnswer' = r.confirmed
                       /\ IF r.confirmed # "true"
                          THEN /\ Exit(1, <<"CommitCreationCanceled">>)
                               /\ UNCHANGED <<promptLog, commitMessage, msgFile, writes>>
                          ELSE /\ commitMessage' = HookMessage(r)
                               /\ writes' = writes + 1
                               /\ msgFile' = IF writeOk THEN HookMessage(r) ELSE msgFile
                               /\ IF writeOk
                                  THEN Exit(0, <<"MessageCreated">>)
                                  ELSE Exit(1, <<"Error">>)
                               /\ UNCHANGED promptLog
    /\ UNCHANGED <<tool, commitSource, markerFiles, isTTY, gitCalls, stagerVars>>
    /\ UNCHANGED <<stagedFiles, scopeSuggestion, scope, envValue, pushVars>>

\* lines 155-160: onCancel of the chain: the cancel message, exit 1
HookCancel ==
    /\ tool = "hook" /\ pc = "hookChain"
    /\ Exit(1, <<"CommitCreationCanceled">>)
    /\ UNCHANGED <<tool, hookVars, keys, finalAnswer, promptLog, gitCalls, response>>
    /\ UNCHANGED <<stagerVars, commitVars, pushVars>>

NextHook ==
    \/ HookStart
    \/ HookAnswer
    \/ HookCancel

SpecHook == InitHook /\ [][NextHook]_vars

(***************************************************************************)
(* The three tools                                                         *)
(***************************************************************************)
Init == InitStager \/ InitCommit \/ InitPush \/ InitHook

Next ==
    \/ StagerGetChangedFiles
    \/ StagerAllStagedAnswer
    \/ StagerSelectMode
    \/ StagerSelectFiles
    \/ StagerSelectExtensions
    \/ StagerEnterPattern
    \/ StagerConfirmStage
    \/ StagerProceedAnswer
    \/ ComposerCheckStaged
    \/ ComposerSubjectRejected
    \/ ComposerAnswer
    \/ ComposerCancel
    \/ ComposerOtherScopeAnswer
    \/ ComposerConfirmAnswer
    \/ PusherStart
    \/ PusherSelectRemote
    \/ PusherEnterBranch
    \/ PusherAnswerForce
    \/ PusherCancel
    \/ PusherContinueAnswer
    \/ PusherConfirmAnswer
    \/ PusherSpinnerTick
    \/ PusherData
    \/ PusherClose
    \/ HookStart
    \/ HookAnswer
    \/ HookCancel

Spec == Init /\ [][Next]_vars

(***************************************************************************)
(* Properties                                                              *)
(***************************************************************************)
Exited == pc = "exited"

\* a message with this tag was printed
Printed(tag) == \E i \in DOMAIN out : out[i] = tag

\* the prompt that is the running tool's final confirmation
FinalPrompt ==
    CASE tool = "stager" -> "confirmStage"
      [] tool = "commit" -> "confirmCommit"
      [] tool = "push" -> "confirmPush"
      [] tool = "hook" -> "confirmed"

\* the mutating git operation of the running tool
ToolOperation ==
    CASE tool = "stager" -> "add"
      [] tool = "commit" -> "commit"
      [] tool = "push" -> "push"
      [] tool = "hook" -> "none"

FailureTags ==
    {"Error", "NoFilesSelected", "NoPattern", "NoMatch", "FailedToStage", "NoStagedFiles",
     "FailedToCreateCommit", "NoBranch", "PushFailed"}
CancelTags == {"StagingCanceled", "CommitCreationCanceled", "CommitCancelled", "PushCanceled"}

\* the run ended in a failure, a declined confirmation or a cancelled prompt
EndedBadly ==
    /\ Exited
    /\ \/ exitCode # 0
       \/ finalAnswer \in {"false", Undefined}
       \/ \E t \in FailureTags \cup CancelTags : Printed(t)

\* C1 (as amended): in the three tools a mutating git operation (git add, git
\* commit, git push) is invoked only after the tool's final confirmation prompt
\* was shown and answered yes, and it is the tool's own operation; every run
\* that ends without that yes - by a failure, a declined confirmation or a
\* cancelled prompt at or before the final confirmation - has invoked none.
C1_MutationOnlyAfterConfirmation ==
    /\ \A i \in DOMAIN gitCalls : gitCalls[i].op = ToolOperation
    /\ gitCalls # <<>> =>
         /\ finalAnswer = "true"
         /\ \E i \in DOMAIN promptLog : promptLog[i] = FinalPrompt
    /\ (Exited /\ finalAnswer # "true") => gitCalls = <<>>

\* a confirmed Stager run that invoked git add and ended
C1_Witness ==
    /\ tool = "stager" /\ Exited
    /\ finalAnswer = "true"
    /\ Len(gitCalls) = 1

\* C1 (as stated): the operation is invoked only after the confirmation, and
\* on every path that ends in a failure, a declined confirmation or a cancelled
\* prompt no mutating git operation has been invoked.
C1_Original ==
    /\ gitCalls # <<>> => finalAnswer = "true"
    /\ EndedBadly => gitCalls = <<>>

\* the porcelain lines the Stager parsed
StatusLines == FilterBoolean(Split(statusOutput, <<"\n">>))

\* getChangedFiles has parsed the status output
Parsed == tool = "stager" /\ pc # "start" /\ Len(changedFiles) = Len(StatusLines)

\* C2 (as stated): every parsed line's FileChange has isStaged = true iff the
\* first character of the line's two-character status code is neither a blank
\* nor "?".
C2_Original ==
    Parsed =>
      \A i \in DOMAIN changedFiles :
        changedFiles[i].isStaged <=> (StatusLines[i][1] \notin {" ", "?"})

\* C3 (as stated): when git push closes with a non-zero code the Pusher
\* reports the failure, prints the captured output and exits non-zero.
C3_Original ==
    (tool = "push" /\ Exited /\ gitCalls # <<>> /\ pushExit # 0) =>
      /\ Printed("PushFailed")
      /\ Printed("RawOutput")
      /\ exitCode # 0

\* the user cancelled a prompt of the Commit Composer: a question of the chain
\* (onCancel printed its message), the follow-up custom-scope prompt (its
\* answer, the scope, is undefined) or the final confirmation
ComposerCancelled ==
    \/ Printed("CommitCreationCanceled")
    \/ scope = UndefinedStr
    \/ finalAnswer = Undefined

\* C4 (as stated): a cancel at any prompt of the Commit Composer ends the run
\* at once with exit code 1, no further prompt shown, no commit invoked.
C4_Original ==
    (tool = "commit" /\ ComposerCancelled) =>
      /\ Exited
      /\ exitCode = 1
      /\ gitCalls = <<>>
      /\ scope = UndefinedStr => promptLog[Len(promptLog)] = "otherScope"

OperationFailed ==
    Printed("FailedToStage") \/ Printed("FailedToCreateCommit") \/ Printed("PushFailed")
ValidationFailed ==
    \E t \in {"NoFilesSelected", "NoPattern", "NoMatch", "NoStagedFiles", "NoBranch"} :
       Printed(t)
DeclinedFinal == finalAnswer \in {"false", Undefined}
Succeeded == finalAnswer = "true" /\ ~OperationFailed /\ ~Printed("Error")
WarningNoOp ==
    \/ Printed("NoChanges")
    \/ Printed("NoUnstaged") /\ ~Printed("Error")
    \/ Printed("NoExtensions")
    \/ Printed("NoUnpushedCommits") /\ Printed("PushCanceled") /\ finalAnswer = "pending"

\* C5 (as stated): the exit code is 0 only on success or on a no-op
\* cancellation from a warning state, and is 1 whenever the run ends by a
\* validation failure, by a declined or cancelled final confirmation, or by a
\* failure of the git operation.
C5_Original ==
    Exited =>
      /\ exitCode = 0 => (Succeeded \/ WarningNoOp)
      /\ (ValidationFailed \/ DeclinedFinal \/ OperationFailed) => exitCode = 1

\* the classifications in precedence order, each with its code letter
Precedence ==
    << <<"Modified", "M">>, <<"Added", "A">>, <<"Deleted", "D">>, <<"Renamed", "R">>,
       <<"Untracked", "?">>, <<"Unmerged", "U">> >>

\* the k-th classification is the first whose letter occurs in the code
FirstMatch(code, k) ==
    /\ Includes(code, Precedence[k][2])
    /\ \A j \in 1..(k - 1) : ~Includes(code, Precedence[j][2])

\* C6 (as stated): every status line is assigned exactly one of Modified,
\* Added, Deleted, Renamed, Untracked, Unmerged: the first, in that order, whose
\* code letter occurs in the line's status code.
C6_Original ==
    Parsed =>
      \A i \in DOMAIN changedFiles :
        \E k \in DOMAIN Precedence :
          /\ FirstMatch(SubSeq(StatusLines[i], 1, 2), k)
          /\ changedFiles[i].displayStatus = Precedence[k][1]

\* the message was assembled
Composed == tool = "commit" /\ Printed("Preview")

\* the sections of the message: the header and what follows each blank line
MessageSections == Split(commitMessage, NewLines)

Count(b) == IF b THEN 1 ELSE 0
BodyGiven == Truthy(response.body)
BreakingGiven == response.breaking = "true"
IssuesGiven == response.issues = "true" /\ Truthy(response.issuesBody)
HasBreakingSection == \E i \in DOMAIN MessageSections : MatchesAt(MessageSections[i], BreakingPrefix, 1)

\* no empty section, none that starts or ends with a line break, (scope) iff
\* the scope is non-empty, the body section iff the body is non-empty, the
\* issues section iff the issues text is non-empty
C7_Common ==
    LET sec == MessageSections
    IN /\ \A i \in DOMAIN sec :
            sec[i] # <<>> /\ sec[i][1] # "\n" /\ sec[i][Len(sec[i])] # "\n"
       /\ Contains(sec[1], <<"(">>) <=> Truthy(scope)
       /\ Contains(sec[1], <<")">>) <=> Truthy(scope)
       /\ Truthy(scope) => Contains(sec[1], <<"(">> \o scope \o <<")", ":", " ">>)
       /\ BodyGiven <=> (Len(sec) >= 2 /\ sec[2] = response.body)
       /\ IssuesGiven <=> (Len(sec) >= 2 /\ sec[Len(sec)] = response.issuesBody)
       /\ (response.type = <<"f","e","a","t">> /\ scope = <<"a","p","i">>
             /\ response.subject = <<"A">> /\ ~BodyGiven /\ ~BreakingGiven /\ ~IssuesGiven)
            => commitMessage = <<"f","e","a","t","(","a","p","i",")",":"," ","A">>

UpperCaseLetters ==
    {"A","B","C","D","E","F","G","H","I","J","K","L","M","N","O","P","Q","R","S","T","U",
     "V","W","X","Y","Z"}

\* C8 (as stated): the subject prompt accepts no subject that is empty, whose
\* first character is not an uppercase letter, or that ends with "."; so no
\* message is composed from such a subject.
C8_Original ==
    (tool = "commit" /\ response.subject # UndefinedStr) =>
      /\ response.subject # <<>>
      /\ response.subject[1] \in UpperCaseLetters
      /\ ~EndsWith(response.subject, ".")

\* C9: when the staged-file list is empty at the start of the Commit Composer,
\* the run ends with a non-zero exit code, no prompt is ever shown and git
\* commit is never invoked.
C9_NoStagedFilesNoPrompt ==
    (tool = "commit" /\ stagedFiles = <<>>) =>
      /\ promptLog = <<>>
      /\ gitCalls = <<>>
      /\ pc \in {"start", "exited"}
      /\ Exited => (exitCode # 0 /\ Printed("NoStagedFiles"))

\* a Commit Composer run that found nothing staged and ended
C9_Witness ==
    /\ tool = "commit" /\ stagedFiles = <<>>
    /\ Exited /\ exitCode = 1

\* C10 (as stated): once the user confirmed, git commit is invoked exactly
\* once, with the assembled message as its message; when it fails the tool
\* reports the failure and exits non-zero without a second invocation.
C10_Original ==
    tool = "commit" =>
      /\ Len(gitCalls) <= 1
      /\ gitCalls # <<>> => gitCalls[1].args = <<commitMessage>>
      /\ (Exited /\ finalAnswer = "true") => Len(gitCalls) = 1
      /\ (Exited /\ Printed("FailedToCreateCommit")) => exitCode # 0

\* the Pusher has looked up the unpushed commits (the chain of prompts was
\* answered to its end)
Classified == tool = "push" /\ response.forcePush # Undefined

\* the prompt was shown
Shown(prompt) == \E i \in DOMAIN promptLog : promptLog[i] = prompt

\* the user typed this at the prompt
Typed(prompt, typed) == \E i \in DOMAIN keys : keys[i] = Key(prompt, typed)

\* C11 (as stated): whenever the remote branch the push targets does not exist
\* on the selected remote, the run is the "new branch" case and the "Continue
\* with push anyway?" prompt is not shown, also when the target branch name
\* differs from the current branch.
C11_Original ==
    (Classified /\ <<response.remote, response.branch>> \notin remoteRefs) =>
      /\ unpushedCommits = NewBranch
      /\ Printed("NewBranchOnRemote")
      /\ ~Shown("continueAnyway")

\* the branch has a ref on the selected remote and no commit that the ref lacks
ZeroOutstanding == <<response.remote, currentBranch>> \in remoteRefs /\ ahead = 0

\* the branch has a ref on the selected remote and commits that the ref lacks
SomeOutstanding == <<response.remote, currentBranch>> \in remoteRefs /\ ahead > 0

\* C12: with zero outstanding commits and not in the new-branch case, the
\* Pusher shows "Continue with push anyway?" and git push is invoked (and the
\* final confirmation reached) only after the user typed yes there; Enter, the
\* default, is a no and ends the run.  With at least one outstanding commit the
\* extra prompt is not shown.
C12_ContinueOnlyOnExplicitYes ==
    Classified =>
      /\ ZeroOutstanding =>
           /\ Shown("continueAnyway")
           /\ (gitCalls # <<>> \/ Shown("confirmPush")) => Typed("continueAnyway", <<"y">>)
           /\ Typed("continueAnyway", <<>>) => (Exited /\ gitCalls = <<>>)
      /\ SomeOutstanding => ~Shown("continueAnyway")

\* a push that was spawned with nothing to push, after the explicit yes
C12_Witness ==
    /\ Classified /\ ZeroOutstanding
    /\ Typed("continueAnyway", <<"y">>)
    /\ Len(gitCalls) = 1

\* the user accepted the default of the three prompts of the chain
AllDefaults == Typed("remote", <<>>) /\ Typed("branch", <<>>) /\ Typed("forcePush", <<>>)

\* C17: Enter at the remote prompt gives "origin" when it is among the remotes
\* and the first remote otherwise; Enter at the branch prompt gives the current
\* branch; Enter at the force prompt gives no force.  A push made with all
\* three defaults is `git push <default remote> <branch>:<branch>`.
C17_DefaultsGivePlan ==
    tool = "push" =>
      LET default == IF \E i \in DOMAIN remotes : remotes[i] = Origin
                     THEN Origin ELSE remotes[1]
      IN /\ Typed("remote", <<>>) => response.remote = default
         /\ Typed("branch", <<>>) => response.branch = currentBranch
         /\ Typed("forcePush", <<>>) => response.forcePush = "false"
         /\ (AllDefaults /\ gitCalls # <<>>) =>
              gitCalls[1].args = <<default, currentBranch \o <<":">> \o currentBranch>>

\* a push made with all defaults where origin is not the first remote
C17_Witness ==
    /\ tool = "push"
    /\ remotes = <<Upstream, Origin>>
    /\ AllDefaults
    /\ Len(gitCalls) = 1

\* git add returned without throwing: line 524 printed its message
AddSucceeded == Printed("Staged")

\* git add was invoked and threw
AddFailed == gitCalls # <<>> /\ ~AddSucceeded

\* C13 (as amended): the Stager invokes git add at most once, as one call over
\* all the selected paths; when that call fails the Stager reports the staging
\* failure and exits 1 with no retry, no offer and no launch of the Commit
\* Composer; the offer made after staging is shown only once git add has
\* succeeded.  The other offer, made when every change is already staged at the
\* start of the run, is shown without any staging call.
C13_StageOnceThenOffer ==
    tool = "stager" =>
      /\ Len(gitCalls) <= 1
      /\ gitCalls # <<>> =>
           /\ gitCalls[1].op = "add"
           /\ gitCalls[1].paths = filesToStage
           /\ filesToStage # <<>>
      /\ AddFailed =>
           /\ Exited /\ exitCode = 1
           /\ Printed("FailedToStage")
           /\ ~Printed("LaunchCommit")
           /\ ~Shown("proceedToCommit")
      /\ Shown("proceedToCommit") => (AddSucceeded /\ Len(gitCalls) = 1)
      /\ Shown("proceedToCommitAllStaged") =>
           (gitCalls = <<>> /\ UnstagedOf(changedFiles) = <<>> /\ ~Shown("proceedToCommit"))
      /\ Printed("LaunchCommit") =>
           (Shown("proceedToCommit") \/ Shown("proceedToCommitAllStaged"))

\* a failed staging call over two selected paths
C13_Witness ==
    /\ tool = "stager"
    /\ AddFailed
    /\ Len(filesToStage) = 2
    /\ Exited

\* C13 (as stated): ... the offer to chain into the Commit Composer is made
\* only after the staging call succeeded.
C13_Original ==
    tool = "stager" =>
      /\ Len(gitCalls) <= 1
      /\ AddFailed => (Exited /\ exitCode = 1 /\ ~Printed("LaunchCommit"))
      /\ (Shown("proceedToCommit") \/ Shown("proceedToCommitAllStaged")) => AddSucceeded

\* C14 (as stated): a selection that yields nothing (no file selected, no
\* extension found, no file matching the filter) ends the run with a non-zero
\* exit code, with no staging call and no further prompt.
C14_Original ==
    (tool = "stager"
       /\ (Printed("NoFilesSelected") \/ Printed("NoExtensions") \/ Printed("NoMatch"))) =>
      /\ Exited
      /\ exitCode # 0
      /\ gitCalls = <<>>
      /\ ~Shown("confirmStage")

\* C15 (as stated): getChangedFiles returns one FileChange per non-empty line,
\* in input order, whose status code is the first two characters of the line
\* and whose path is the rest of the line, trimmed.
C15_Original ==
    (tool = "stager" /\ pc # "start" /\ changedFiles # <<>>) =>
      /\ Len(changedFiles) = Len(StatusLines)
      /\ \A i \in DOMAIN changedFiles :
           /\ changedFiles[i].status = SubSeq(StatusLines[i], 1, 2)
           /\ changedFiles[i].filePath = Trim(SubstringFrom(StatusLines[i], 3))

\* C19 (as stated): "Failed to stage files" with exit code 1 is reported only
\* when git add itself failed, never after git add has succeeded.
C19_Original ==
    (tool = "stager" /\ Printed("FailedToStage")) =>
      /\ exitCode = 1
      /\ ~AddSucceeded

\* the path is that of a file the snapshot lists as not staged
UnstagedInSnapshot(path) ==
    \E j \in DOMAIN changedFiles :
       changedFiles[j].filePath = path /\ ~changedFiles[j].isStaged

\* C20 (as amended): in the modes all, individual and by file type every path
\* passed to git add is the path of a FileChange of the snapshot with isStaged
\* = false; in pattern mode every path passed is one that `git ls-files
\* --modified --others` lists, whatever the snapshot says of it.
C20_AddedPathsComeFromSelection ==
    (tool = "stager" /\ gitCalls # <<>>) =>
      \A i \in DOMAIN gitCalls[1].paths :
        IF selectionMode = "pattern"
        THEN \E k \in DOMAIN LsFilesModifiedOthers(statusOutput) :
                LsFilesModifiedOthers(statusOutput)[k] = gitCalls[1].paths[i]
        ELSE UnstagedInSnapshot(gitCalls[1].paths[i])

\* a pattern-mode run that passed git add a path the snapshot lists as staged
\* (added to the index, then changed again in the working tree)
C20_Witness ==
    /\ tool = "stager"
    /\ selectionMode = "pattern"
    /\ Len(gitCalls) = 1
    /\ \E i \in DOMAIN gitCalls[1].paths, j \in DOMAIN changedFiles :
          /\ changedFiles[j].filePath = gitCalls[1].paths[i]
          /\ changedFiles[j].isStaged
          /\ StatusLines[j][1] = "A"

\* C20 (as stated): every path passed to git add is the path of a FileChange
\* with isStaged = false in the snapshot, in all four modes.
C20_Original ==
    (tool = "stager" /\ gitCalls # <<>>) =>
      \A i \in DOMAIN gitCalls[1].paths : UnstagedInSnapshot(gitCalls[1].paths[i])

\* the close handler of git push has run
CloseHandled == tool = "push" /\ Exited /\ gitCalls # <<>>

\* C18: in every interleaving of spinner ticks, data events and the close
\* event, once the close handler has run (after exit code 0 or not) the
\* spinner timer is disarmed and stillRunning is false, no spinner frame is
\* written from then on, and the spinner index is always one of the 10 frames.
C18_SpinnerStopsAtClose ==
    /\ [](tool = "push" => spinnerIndex \in 0..(SpinnerFrameCount - 1))
    /\ [](CloseHandled => (~spinnerInterval /\ ~stillRunning))
    /\ [][CloseHandled => (framesWritten' = framesWritten /\ spinnerIndex' = spinnerIndex)]_vars

\* a failed push that closed after the spinner went once around its frames,
\* with output received in between
C18_Witness ==
    /\ CloseHandled
    /\ pushExit # 0
    /\ framesWritten > SpinnerFrameCount
    /\ spinnerIndex = framesWritten - SpinnerFrameCount
    /\ output # <<>>

\* the text of a branch name between the "<type>/" prefix and the first
\* hyphen; "" when the name has no such prefix or nothing before the hyphen
InferredScope(branch) ==
    LET prefixes == {p \in BranchPrefixes : Len(branch) > Len(p) /\ SubSeq(branch, 1, Len(p)) = p}
    IN IF prefixes = {} THEN <<>>
       ELSE LET p == CHOOSE q \in prefixes : TRUE
                rest == SubSeq(branch, Len(p) + 1, Len(branch))
                hyphens == {i \in DOMAIN rest : rest[i] = "-"}
            IN IF hyphens = {} THEN rest
               ELSE SubSeq(rest, 1, (CHOOSE i \in hyphens : \A j \in hyphens : i <= j) - 1)

\* C16: in the commit wizard and in the prepare-commit-msg hook the scope
\* suggestion is the text of the branch name between the "<type>/" prefix and
\* the first hyphen when the branch has such a prefix followed by a character
\* other than a hyphen, and "" otherwise; Enter at a scope prompt (custom scope,
\* the follow-up after "other", the hook's scope) answers that suggestion.
C16_ScopeSuggestedFromBranch ==
    (tool \in {"commit", "hook"} /\ promptLog # <<>>) =>
      /\ scopeSuggestion = InferredScope(currentBranch)
      /\ (tool = "commit" /\ Typed("customScope", <<>>)) =>
           response.customScope = InferredScope(currentBranch)
      /\ (tool = "commit" /\ Typed("otherScope", <<>>)) =>
           scope = InferredScope(currentBranch)
      /\ (tool = "hook" /\ Typed("scope", <<>>)) =>
           response.scope = InferredScope(currentBranch)

\* the commit wizard on branch fix/ui-1: Enter at "Enter custom scope:" gave
\* the scope ui
C16_Witness ==
    /\ tool = "commit"
    /\ currentBranch = <<"f","i","x","/","u","i","-","1">>
    /\ Typed("customScope", <<>>)
    /\ scope = <<"u","i">>
    /\ Composed

\* the message file holds a line that is not blank and does not start with #
HasMessageLine ==
    \E line \in Range(Split(msgFile, <<"\n">>)) :
       /\ line # <<>>
       /\ line[1] # "#"
       /\ \E i \in DOMAIN line : ~IsWhiteSpace(line[i])

\* one of the conditions on which the hook is to do nothing
SkipCase ==
    \/ commitSource \in {"message", "template", "merge", "squash"}
    \/ markerFiles
    \/ HasMessageLine
    \/ ~isTTY

\* C21: the prepare-commit-msg hook exits 0 without a prompt and without
\* touching the message file when the commit source is message, template,
\* merge or squash, a merge / rebase / cherry-pick is in progress, the file
\* holds a non-comment non-blank line, or stdin is not a TTY; a cancelled
\* prompt or a declined confirmation exits 1 with the file untouched; the file
\* is written at most once, by the step that takes the user's yes, and a run
\* that ends with code 0 after the yes has written the composed message.
C21_HookWritesOnlyWhenConfirmed ==
    /\ [](tool = "hook" =>
            /\ writes <= 1
            /\ writes = 1 => (finalAnswer = "true" /\ Exited)
            /\ (Exited /\ writes = 0 /\ SkipCase) => (exitCode = 0 /\ promptLog = <<>>)
            /\ (Exited /\ promptLog # <<>> /\ finalAnswer # "true") =>
                 (exitCode = 1 /\ writes = 0 /\ Printed("CommitCreationCanceled"))
            /\ (Exited /\ finalAnswer = "true") => writes = 1
            /\ (Exited /\ finalAnswer = "true" /\ exitCode = 0) => msgFile = commitMessage)
    /\ [][(tool = "hook" /\ (msgFile' # msgFile \/ writes' # writes)) =>
            (writes = 0 /\ writes' = 1 /\ finalAnswer' = "true" /\ ~SkipCase)]_vars

\* a confirmed run of the hook on a file of comments that wrote its message
C21_Witness ==
    /\ tool = "hook" /\ Exited /\ exitCode = 0
    /\ commitSource = "commit"
    /\ writes = 1
    /\ msgFile = commitMessage
    /\ Typed("confirmed", <<>>)
    /\ msgFile # <<>>

\* the command line that spells out a spawn of git with these arguments:
\* git, push and the arguments, one blank between two words
CommandLineOf(args) ==
    LET word(i) == <<" ">> \o args[i]
    IN <<"g","i","t"," ","p","u","s","h">> \o word(1) \o word(2)
         \o (IF Len(args) > 2 THEN word(3) ELSE <<>>)

\* C22: in every run of the Pusher the command shown before the final
\* confirmation and the push that is spawned are the same operation: the
\* command shown spells out git push with exactly the arguments git is spawned
\* with; --force is among them iff the user chose force; the remote is the
\* selected one and the refspec is <current branch>:<chosen remote branch>.
\* The command is on screen when the final confirmation is asked, and git push
\* is spawned at most once.
C22_ShownCommandIsExecuted ==
    tool = "push" =>
      /\ Len(gitCalls) <= 1
      /\ Shown("confirmPush") => (Printed("Executing") /\ pushCommand # <<>>)
      /\ gitCalls # <<>> =>
           LET args == gitCalls[1].args
               force == response.forcePush = "true"
           IN /\ Shown("confirmPush")
              /\ Len(args) = (IF force THEN 3 ELSE 2)
              /\ pushCommand = CommandLineOf(args)
              /\ (args[1] = <<"-","-","f","o","r","c","e">>) <=> force
              /\ force <=> Typed("forcePush", <<"y">>)
              /\ args[Len(args) - 1] = response.remote
              /\ args[Len(args)] = currentBranch \o <<":">> \o response.branch

\* a forced push to a remote branch named differently from the current branch
C22_Witness ==
    /\ tool = "push" /\ Exited
    /\ Len(gitCalls) = 1
    /\ Typed("forcePush", <<"y">>)
    /\ response.branch = OtherBranch
    /\ response.branch # currentBranch

====
